---- MODULE Spec2Model ----
(***************************************************************************)
(* Model of the motor governor task (src/src/t_motor_governor.rs).         *)
(*                                                                         *)
(* The governor is one cooperative task.  It holds the processor from the  *)
(* moment it is polled until one of its awaits returns Pending; the        *)
(* publishers of the two input channels and the clock act only while it    *)
(* is suspended.  `running` is TRUE while the governor holds the           *)
(* processor.  Time is counted in milliseconds and advances in granules of *)
(* StepMs, the shortest timer of the program, and only while the governor  *)
(* has nothing to do (a due timer or a pending event is served before time *)
(* passes).                                                                *)
(***************************************************************************)
EXTENDS Integers, Sequences, FiniteSets, TLC

\* ------------------------------------------------------------------------
\* Program constants
\* ------------------------------------------------------------------------
BootWaitMs == 500
ArmIters == 50
DirIters == 10
StepMs == 50
TimeoutMs == 500

\* Throttle range of the driver's clamped-throttle command.
ThrottleMin == 48
ThrottleMax == 2047

\* ------------------------------------------------------------------------
\* Bounds of the model
\* ------------------------------------------------------------------------
\* Number of non-commandable blocker flags the publishers may set.
NumOtherFlags == 1
\* Number of distinct non-zero speed levels; the last one exceeds ThrottleMax.
NumSpeedLevels == 2

\* ------------------------------------------------------------------------
\* Data types
\* ------------------------------------------------------------------------
CMD_DISARM == "CMD_DISARM"
OtherFlagNames == <<"NO_GYR_CALIB", "RX_FAILSAFE", "HIGH_ATTITUDE", "SYSTEM_LOAD">>
OtherFlags == {OtherFlagNames[k] : k \in 1..NumOtherFlags}

\* An ArmBlocker value is the set of the flags that are set.
ArmBlocker == SUBSET (OtherFlags \cup {CMD_DISARM})

is_empty(flag) == flag = {}
\* Variants of contains: exact match of the mask, and "any flag set".
contains_Exact(flag, f) == flag = {f}
contains_AnyFlag(flag, f) == flag # {} /\ flag # {"None"}
contains(flag, f) == f \in flag

\* A channel that has never been written holds no value.
NoValue == <<"None">>
NoBlocker == {"None"}

NotInitialized == <<"Disarmed", "NotInitialized">>
Fault == <<"Disarmed", "Fault">>
Commanded == <<"Disarmed", "Commanded">>
Timeout == <<"Disarmed", "Timeout">>
Arming == <<"Arming">>
ArmedIdle == <<"Armed", "Idle">>
ArmedRunning(speeds) == <<"Armed", "Running", speeds>>

IsDisarmed(s) == s[1] = "Disarmed"
IsArmed(s) == s[1] = "Armed"

\* Speed levels: 0, in-range values, and one value above the throttle range.
SpeedLevel(k) == IF k = 0 THEN 0
                 ELSE IF k = NumSpeedLevels THEN ThrottleMax + 953
                 ELSE 1000 * k
SpeedLevels == {SpeedLevel(k) : k \in 0..NumSpeedLevels}
SpeedVectors == {<<a, b, a, b>> : a \in SpeedLevels, b \in SpeedLevels}
ZeroSpeeds == <<0, 0, 0, 0>>

\* ------------------------------------------------------------------------
\* Motor driver
\* ------------------------------------------------------------------------
ClampOne(v) == IF v < ThrottleMin THEN ThrottleMin
               ELSE IF v > ThrottleMax THEN ThrottleMax ELSE v
ClampVec(speeds) == [k \in 1..4 |-> ClampOne(speeds[k])]

CmdNone == <<"none">>
CmdThrottleMinimum == <<"throttle_minimum">>
CmdReverse == <<"reverse">>
CmdThrottleClamp(speeds) == <<"throttle_clamp", ClampVec(speeds)>>

\* Effects a governor step can emit, in order.
Drv(c) == <<"driver", c>>
Snd(s) == <<"send", s>>

VARIABLES
    pc,          \* await at which the governor stands
    running,     \* the governor holds the processor
    timer,       \* ms left on the timer the governor awaits
    i,           \* iterations done of the current ramp loop
    blk,         \* ARM_BLOCKER: latest value
    blkFresh,    \* ARM_BLOCKER: value not yet seen by the governor's receiver
    spd,         \* MOTOR_SPEEDS: latest value
    spdFresh,    \* MOTOR_SPEEDS: value not yet seen by the governor's receiver
    motor_state, \* MOTOR_STATE: latest value
    lastCmd,     \* most recent driver command
    out,         \* effects emitted by the most recent governor step
    rampMs,      \* ms elapsed since Arming was published
    nMin,        \* minimum-throttle commands issued in the current ramp
    nDir,        \* direction-set commands issued in the current ramp
    quietMs,     \* ms since the later of armed-loop entry and the last publish
    armedMs,     \* ms spent in the current stay in the armed loop (saturating)
    \* --- attitude controller (src/src/task_attitude_controller.rs) ---
    apc,         \* place at which the attitude controller stands
    stabilization_mode, \* its current mode and reference
    pid,         \* state of its six PID controllers
    modeChan,    \* stabilization-mode channel: message not yet taken, or NoMsg
    resetChan,   \* integrator-reset channel: message not yet taken, or NoMsg
    senseChan,   \* attitude-sense channel: message not yet taken, or NoMsg
    actuate,     \* actuation channel: latest published vector
    cycles,      \* control cycles completed
    freshReset,  \* the integrators were reset since the last control cycle
    updated,     \* controllers updated by the latest control cycle
    usedErr,     \* error each of them used in the latest control cycle
    pidOut,      \* output of each of them in the latest control cycle
    lastKind     \* kind of the mode the latest actuation was computed under

vars == <<pc, running, timer, i, blk, blkFresh, spd, spdFresh,
          motor_state, lastCmd, out, rampMs, nMin, nDir, quietMs, armedMs,
          apc, stabilization_mode, pid, modeChan, resetChan, senseChan,
          actuate, cycles, freshReset, updated, usedErr, pidOut,
                   lastKind>>

govVars == <<pc, running, timer, i, blk, blkFresh, spd, spdFresh,
             motor_state, lastCmd, out, rampMs, nMin, nDir, quietMs, armedMs>>
attVars == <<apc, stabilization_mode, pid, modeChan, resetChan, senseChan,
             actuate, cycles, freshReset, updated, usedErr, pidOut,
                   lastKind>>

chanVars == <<blk, blkFresh, spd, spdFresh>>
rampVars == <<rampMs, nMin, nDir>>

PcValues == {"start", "wait_empty", "ramp_boot", "ramp_min", "ramp_dir", "armed"}
RampPcs == {"ramp_boot", "ramp_min", "ramp_dir"}

\* ------------------------------------------------------------------------
\* Attitude controller: data
\* ------------------------------------------------------------------------
\* Angles and rates are integers in 1/1000 rad (rad/s); gains are integers
\* in 1/1000 of the value written in the source.
Pi == 3142
GainScale == 1000

\* Bounds of the attitude model.
MaxCycles == 2
NumRefs == 1
NumSense == 2

Vec(x, y, z) == <<x, y, z>>
VSub(a, b) == <<a[1] - b[1], a[2] - b[2], a[3] - b[3]>>
ZeroVec == <<0, 0, 0>>

Horizon(reference) == <<"Horizon", reference>>
Acro(reference) == <<"Acro", reference>>

variant(m) == IF m[1] = "Horizon" THEN 0 ELSE 1
same_variant_as(m, rhs) == variant(m) = variant(rhs)

\* Pid::new(kp, ki, kd, ideal, ts) with the set_circular / set_lp_filter
\* options of lines 49-54.
NewPid(kp, ki, kd, circular, lp) ==
    [kp |-> kp, ki |-> ki, kd |-> kd, circular |-> circular, lp |-> lp]

pid_pitch_outer == NewPid(10000, 100, 0, FALSE, FALSE)
pid_pitch_inner == NewPid(40000, 1000, 10, FALSE, TRUE)
pid_roll_outer == NewPid(10000, 100, 0, FALSE, FALSE)
pid_roll_inner == NewPid(30000, 1000, 10, FALSE, TRUE)
\* Variant of the outer yaw controller built without set_circular.
pid_yaw_outer_Linear == NewPid(8000, 1, 0, FALSE, FALSE)
pid_yaw_outer == NewPid(8000, 1, 0, TRUE, FALSE)
pid_yaw_inner == NewPid(60000, 1000, 0, TRUE, TRUE)

OuterPids == {"pid_pitch_outer", "pid_roll_outer", "pid_yaw_outer"}
InnerPids == {"pid_pitch_inner", "pid_roll_inner", "pid_yaw_inner"}
PidNames == OuterPids \cup InnerPids

PidCfg(n) ==
    CASE n = "pid_pitch_outer" -> pid_pitch_outer
      [] n = "pid_pitch_inner" -> pid_pitch_inner
      [] n = "pid_roll_outer" -> pid_roll_outer
      [] n = "pid_roll_inner" -> pid_roll_inner
      [] n = "pid_yaw_outer" -> pid_yaw_outer
      [] n = "pid_yaw_inner" -> pid_yaw_inner

\* State of a controller: accumulated integral, previous error, state of the
\* derivative low-pass filter.
PidFresh == [integral |-> 0, prev_error |-> 0, dfilt |-> 0]

\* Error on the ring [-Pi, Pi]: the signed shortest way round.
Wrap(e) == ((e + Pi) % (2 * Pi)) - Pi
PidErr(cfg, error) == IF cfg.circular THEN Wrap(error) ELSE error

\* One update: output = P*error + I*integral + D*filtered derivative.  The
\* loop period is the unit of time.
PidDeriv(cfg, st, error) ==
    LET d == PidErr(cfg, error) - st.prev_error
    IN IF cfg.lp THEN st.dfilt + ((d - st.dfilt) \div 2) ELSE d
PidNext(cfg, st, error) ==
    [integral |-> st.integral + PidErr(cfg, error),
     prev_error |-> PidErr(cfg, error),
     dfilt |-> PidDeriv(cfg, st, error)]
PidOutput(cfg, st, error) ==
    (cfg.kp * PidErr(cfg, error)
     + cfg.ki * (st.integral + PidErr(cfg, error))
     + cfg.kd * PidDeriv(cfg, st, error)) \div GainScale
reset_integral(st) == [st EXCEPT !.integral = 0]

\* Sample references and measurements.  The first reference has its yaw just
\* below +Pi and the first measurement its yaw angle just above -Pi; the
\* second measurement equals the first reference in angle and in rate.
RefSamples == <<Vec(400, -200, Pi - 100), Vec(0, 0, 0), Vec(-300, 500, 1000)>>
SenseSamples ==
    << <<Vec(100, -50, 100 - Pi), Vec(0, 0, 0)>>,
       <<Vec(400, -200, Pi - 100), Vec(400, -200, Pi - 100)>>,
       <<Vec(0, 0, 0), Vec(40, 20, -30)>>,
       <<Vec(-200, 300, 2000), Vec(-300, 500, 1000)>> >>
RefVectors == {RefSamples[k] : k \in 1..NumRefs}
SenseMsgs == {SenseSamples[k] : k \in 1..NumSense}
Modes == {Horizon(r) : r \in RefVectors} \cup {Acro(r) : r \in RefVectors}

\* A subscriber's channel holds at most one message not yet taken.
NoMsg == <<>>
Msg(v) == <<v>>

AttInit ==
    /\ apc = "wait_mode"
    /\ stabilization_mode = NoValue
    /\ pid = [n \in PidNames |-> PidFresh]
    /\ modeChan = NoMsg
    /\ resetChan = NoMsg
    /\ senseChan = NoMsg
    /\ actuate = NoValue
    /\ cycles = 0
    /\ freshReset = FALSE
    /\ updated = {}
    /\ usedErr = [n \in PidNames |-> 0]
    /\ pidOut = [n \in PidNames |-> 0]
    /\ lastKind = "None"

Init ==
    /\ pc = "start"
    /\ running = FALSE
    /\ timer = 0
    /\ i = 0
    /\ blk = NoBlocker
    /\ blkFresh = FALSE
    /\ spd = NoValue
    /\ spdFresh = FALSE
    /\ motor_state = NoValue
    /\ lastCmd = CmdNone
    /\ out = <<>>
    /\ rampMs = 0
    /\ nMin = 0
    /\ nDir = 0
    /\ quietMs = 0
    /\ armedMs = 0
    /\ AttInit

\* ------------------------------------------------------------------------
\* Channel operations of the governor's receivers
\* ------------------------------------------------------------------------
\* changed(): ready when a value is present that the receiver has not seen.
ChangedReady(fresh) == fresh
\* Variant of changed_and with the predicate inverted.
ChangedAndEmptyReady_Inverted == blkFresh /\ ~is_empty(blk)
\* Variant of changed_and that ignores the predicate.
ChangedAndEmptyReady_AnyChange == blkFresh /\ blk # {"None"}
\* Variant of changed_and that does not ask for an unseen value.
ChangedAndEmptyReady_IgnoreSeen == is_empty(blk)
\* changed_and(f): ready when an unseen value is present and satisfies f.
ChangedAndEmptyReady == blkFresh /\ is_empty(blk)

\* ------------------------------------------------------------------------
\* Publishers (other tasks) and the clock
\* ------------------------------------------------------------------------
PublishBlocker(flag) ==
    /\ ~running
    /\ blk' = flag
    /\ blkFresh' = TRUE
    /\ quietMs' = 0
    /\ UNCHANGED <<pc, running, timer, i, spd, spdFresh, motor_state,
                   lastCmd, out, rampMs, nMin, nDir>>
    /\ UNCHANGED <<armedMs, attVars>>

PublishSpeed(speeds) ==
    /\ ~running
    /\ spd' = speeds
    /\ spdFresh' = TRUE
    /\ quietMs' = 0
    /\ UNCHANGED <<pc, running, timer, i, blk, blkFresh, motor_state,
                   lastCmd, out, rampMs, nMin, nDir>>
    /\ UNCHANGED <<armedMs, attVars>>

\* The governor is suspended and would not make progress if polled.
Blocked ==
    /\ ~running
    /\ \/ pc \in RampPcs /\ timer > 0
       \/ pc = "armed" /\ timer > 0 /\ ~spdFresh /\ ~blkFresh

Min(a, b) == IF a < b THEN a ELSE b

Tick ==
    /\ Blocked
    /\ timer' = timer - Min(StepMs, timer)
    /\ rampMs' = IF pc \in RampPcs THEN rampMs + Min(StepMs, timer) ELSE rampMs
    /\ quietMs' = IF pc = "armed" THEN quietMs + Min(StepMs, timer) ELSE quietMs
    /\ UNCHANGED <<pc, running, i, chanVars, motor_state, lastCmd, out, nMin, nDir>>
    /\ armedMs' = IF pc = "armed"
                  THEN Min(armedMs + Min(StepMs, timer), TimeoutMs + StepMs)
                  ELSE armedMs
    /\ UNCHANGED attVars

\* ------------------------------------------------------------------------
\* Governor
\* ------------------------------------------------------------------------
\* Variant of Start that omits the initial send.
Start_NoSend ==
    /\ pc = "start"
    /\ out' = <<>>
    /\ pc' = "wait_empty"
    /\ running' = TRUE
    /\ UNCHANGED <<timer, i, chanVars, motor_state, lastCmd, rampVars, quietMs>>
    /\ UNCHANGED <<armedMs, attVars>>

\* Lines 70-78: create the receivers and the sender, send the initial state.
Start ==
    /\ pc = "start"
    /\ motor_state' = NotInitialized
    /\ out' = <<Snd(NotInitialized)>>
    /\ pc' = "wait_empty"
    /\ running' = TRUE
    /\ UNCHANGED <<timer, i, chanVars, lastCmd, rampVars, quietMs>>
    /\ UNCHANGED <<armedMs, attVars>>

\* Line 83 returns Pending.
WaitEmptyYield ==
    /\ pc = "wait_empty"
    /\ running
    /\ ~ChangedAndEmptyReady
    /\ running' = FALSE
    /\ out' = <<>>
    /\ UNCHANGED <<pc, timer, i, chanVars, motor_state, lastCmd, rampVars, quietMs>>
    /\ UNCHANGED <<armedMs, attVars>>

\* Lines 83-90: the blocker is seen empty; publish Arming, start the boot wait.
SendArming ==
    /\ pc = "wait_empty"
    /\ ChangedAndEmptyReady
    /\ blkFresh' = FALSE
    /\ motor_state' = Arming
    /\ out' = <<Snd(Arming)>>
    /\ pc' = "ramp_boot"
    /\ timer' = BootWaitMs
    /\ running' = FALSE
    /\ i' = 0
    /\ rampMs' = 0
    /\ nMin' = 0
    /\ nDir' = 0
    /\ UNCHANGED <<blk, spd, spdFresh, lastCmd, quietMs>>
    /\ UNCHANGED <<armedMs, attVars>>

\* Variant of the minimum-throttle loop with an abort check on the blocker.
RampMinStep_AbortOnBlocker ==
    /\ \/ pc = "ramp_boot" /\ timer = 0
       \/ pc = "ramp_min" /\ timer = 0 /\ i < ArmIters
    /\ IF is_empty(blk)
       THEN /\ lastCmd' = CmdThrottleMinimum
            /\ out' = <<Drv(CmdThrottleMinimum)>>
            /\ i' = IF pc = "ramp_boot" THEN 1 ELSE i + 1
            /\ nMin' = nMin + 1
            /\ pc' = "ramp_min"
            /\ timer' = StepMs
            /\ running' = FALSE
            /\ UNCHANGED <<chanVars, motor_state, rampMs, nDir, quietMs>>
       ELSE /\ blkFresh' = FALSE
            /\ motor_state' = Fault
            /\ out' = <<Snd(Fault)>>
            /\ pc' = "wait_empty"
            /\ running' = TRUE
            /\ UNCHANGED <<timer, i, blk, spd, spdFresh, lastCmd, rampVars, quietMs>>
    /\ UNCHANGED <<armedMs, attVars>>

\* Lines 91-94: one iteration of the minimum-throttle loop.
RampMinStep ==
    /\ \/ pc = "ramp_boot" /\ timer = 0
       \/ pc = "ramp_min" /\ timer = 0 /\ i < ArmIters
    /\ lastCmd' = CmdThrottleMinimum
    /\ out' = <<Drv(CmdThrottleMinimum)>>
    /\ i' = IF pc = "ramp_boot" THEN 1 ELSE i + 1
    /\ nMin' = nMin + 1
    /\ pc' = "ramp_min"
    /\ timer' = StepMs
    /\ running' = FALSE
    /\ UNCHANGED <<chanVars, motor_state, rampMs, nDir, quietMs>>
    /\ UNCHANGED <<armedMs, attVars>>

\* Lines 98-101: one iteration of the direction-set loop.
RampDirStep ==
    /\ \/ pc = "ramp_min" /\ timer = 0 /\ i = ArmIters
       \/ pc = "ramp_dir" /\ timer = 0 /\ i < DirIters
    /\ lastCmd' = CmdReverse
    /\ out' = <<Drv(CmdReverse)>>
    /\ i' = IF pc = "ramp_min" THEN 1 ELSE i + 1
    /\ nDir' = nDir + 1
    /\ pc' = "ramp_dir"
    /\ timer' = StepMs
    /\ running' = FALSE
    /\ UNCHANGED <<chanVars, motor_state, rampMs, nMin, quietMs>>
    /\ UNCHANGED <<armedMs, attVars>>

\* The last timer of the ramp has expired: line 104 is reached.
RampDone == pc = "ramp_dir" /\ timer = 0 /\ i = DirIters

\* Variant of the post-ramp check that looks only at CMD_DISARM.
PostRampFault_OnlyCommanded ==
    /\ RampDone
    /\ ~is_empty(blk)
    /\ blkFresh' = FALSE
    /\ IF contains(blk, CMD_DISARM)
       THEN /\ motor_state' = Fault
            /\ out' = <<Snd(Fault)>>
            /\ pc' = "wait_empty"
            /\ UNCHANGED <<timer, quietMs>>
       ELSE /\ out' = <<>>
            /\ pc' = "armed"
            /\ timer' = TimeoutMs
            /\ quietMs' = 0
            /\ UNCHANGED motor_state
    /\ running' = TRUE
    /\ UNCHANGED <<i, blk, spd, spdFresh, lastCmd, rampVars>>
    /\ UNCHANGED <<armedMs, attVars>>

\* Lines 104-108: get() sees a non-empty blocker; Disarmed(Fault), continue.
PostRampFault ==
    /\ RampDone
    /\ ~is_empty(blk)
    /\ blkFresh' = FALSE
    /\ motor_state' = Fault
    /\ out' = <<Snd(Fault)>>
    /\ pc' = "wait_empty"
    /\ running' = TRUE
    /\ UNCHANGED <<timer, i, blk, spd, spdFresh, lastCmd, rampVars, quietMs>>
    /\ UNCHANGED <<armedMs, attVars>>

\* Variant that marks the pending speed vector seen on entering the loop.
PostRampPass_DrainSpeed ==
    /\ RampDone
    /\ is_empty(blk)
    /\ blkFresh' = FALSE
    /\ spdFresh' = FALSE
    /\ out' = <<>>
    /\ pc' = "armed"
    /\ timer' = TimeoutMs
    /\ running' = TRUE
    /\ quietMs' = 0
    /\ UNCHANGED <<i, blk, spd, motor_state, lastCmd, rampVars>>
    /\ UNCHANGED <<armedMs, attVars>>

\* Variant that publishes Armed(Idle) on entering the loop.
PostRampPass_PublishIdle ==
    /\ RampDone
    /\ is_empty(blk)
    /\ blkFresh' = FALSE
    /\ motor_state' = ArmedIdle
    /\ out' = <<Snd(ArmedIdle)>>
    /\ pc' = "armed"
    /\ timer' = TimeoutMs
    /\ running' = TRUE
    /\ quietMs' = 0
    /\ UNCHANGED <<i, blk, spd, spdFresh, lastCmd, rampVars>>
    /\ UNCHANGED <<armedMs, attVars>>

\* Lines 104-119: get() sees an empty blocker; enter the armed loop.
PostRampPass ==
    /\ RampDone
    /\ is_empty(blk)
    /\ blkFresh' = FALSE
    /\ out' = <<>>
    /\ pc' = "armed"
    /\ timer' = TimeoutMs
    /\ running' = TRUE
    /\ quietMs' = 0
    /\ UNCHANGED <<i, blk, spd, spdFresh, motor_state, lastCmd, rampVars>>
    /\ UNCHANGED <<armedMs, attVars>>

\* Variant in which the all-zero pattern is shadowed by the general one.
ArmedSpeedIdle_Shadowed ==
    /\ pc = "armed"
    /\ ChangedReady(spdFresh)
    /\ spd = ZeroSpeeds
    /\ spdFresh' = FALSE
    /\ lastCmd' = CmdThrottleClamp(spd)
    /\ motor_state' = ArmedRunning(spd)
    /\ out' = <<Drv(CmdThrottleClamp(spd)), Snd(ArmedRunning(spd))>>
    /\ timer' = TimeoutMs
    /\ running' = TRUE
    /\ UNCHANGED <<pc, i, blk, blkFresh, spd, rampVars, quietMs>>
    /\ UNCHANGED <<armedMs, attVars>>

\* Lines 122-125: a new all-zero speed vector.
ArmedSpeedIdle ==
    /\ pc = "armed"
    /\ ChangedReady(spdFresh)
    /\ spd = ZeroSpeeds
    /\ spdFresh' = FALSE
    /\ lastCmd' = CmdThrottleMinimum
    /\ motor_state' = ArmedIdle
    /\ out' = <<Drv(CmdThrottleMinimum), Snd(ArmedIdle)>>
    /\ timer' = TimeoutMs
    /\ running' = TRUE
    /\ UNCHANGED <<pc, i, blk, blkFresh, spd, rampVars, quietMs>>
    /\ UNCHANGED <<armedMs, attVars>>

\* Variant that publishes the clamped vector instead of the received one.
ArmedSpeedRunning_PublishClamped ==
    /\ pc = "armed"
    /\ ChangedReady(spdFresh)
    /\ spd # ZeroSpeeds
    /\ spdFresh' = FALSE
    /\ lastCmd' = CmdThrottleClamp(spd)
    /\ motor_state' = ArmedRunning(ClampVec(spd))
    /\ out' = <<Drv(CmdThrottleClamp(spd)), Snd(ArmedRunning(ClampVec(spd)))>>
    /\ timer' = TimeoutMs
    /\ running' = TRUE
    /\ UNCHANGED <<pc, i, blk, blkFresh, spd, rampVars, quietMs>>
    /\ UNCHANGED <<armedMs, attVars>>

\* Lines 128-131: any other new speed vector.
ArmedSpeedRunning ==
    /\ pc = "armed"
    /\ ChangedReady(spdFresh)
    /\ spd # ZeroSpeeds
    /\ spdFresh' = FALSE
    /\ lastCmd' = CmdThrottleClamp(spd)
    /\ motor_state' = ArmedRunning(spd)
    /\ out' = <<Drv(CmdThrottleClamp(spd)), Snd(ArmedRunning(spd))>>
    /\ timer' = TimeoutMs
    /\ running' = TRUE
    /\ UNCHANGED <<pc, i, blk, blkFresh, spd, rampVars, quietMs>>
    /\ UNCHANGED <<armedMs, attVars>>

\* Variant of the commanded disarm without the break.
ArmedDisarm_NoBreak ==
    /\ pc = "armed"
    /\ ~ChangedReady(spdFresh)
    /\ ChangedReady(blkFresh)
    /\ contains(blk, CMD_DISARM)
    /\ blkFresh' = FALSE
    /\ lastCmd' = CmdThrottleMinimum
    /\ motor_state' = Commanded
    /\ out' = <<Drv(CmdThrottleMinimum), Snd(Commanded)>>
    /\ timer' = TimeoutMs
    /\ running' = TRUE
    /\ UNCHANGED <<pc, i, blk, spd, spdFresh, rampVars, quietMs>>
    /\ UNCHANGED <<armedMs, attVars>>

\* Lines 134-139: a new blocker value that contains CMD_DISARM.
ArmedDisarm ==
    /\ pc = "armed"
    /\ ~ChangedReady(spdFresh)
    /\ ChangedReady(blkFresh)
    /\ contains(blk, CMD_DISARM)
    /\ blkFresh' = FALSE
    /\ lastCmd' = CmdThrottleMinimum
    /\ motor_state' = Commanded
    /\ out' = <<Drv(CmdThrottleMinimum), Snd(Commanded)>>
    /\ pc' = "wait_empty"
    /\ running' = TRUE
    /\ quietMs' = 0
    /\ UNCHANGED <<timer, i, blk, spd, spdFresh, rampVars>>
    /\ armedMs' = 0
    /\ UNCHANGED attVars

\* Variant in which a blocker value without CMD_DISARM does not restart
\* the timeout.
ArmedBlockerOther_NoRestart ==
    /\ pc = "armed"
    /\ ~ChangedReady(spdFresh)
    /\ ChangedReady(blkFresh)
    /\ ~contains(blk, CMD_DISARM)
    /\ blkFresh' = FALSE
    /\ out' = <<>>
    /\ running' = TRUE
    /\ UNCHANGED <<pc, timer, i, blk, spd, spdFresh, motor_state, lastCmd,
                   rampVars, quietMs>>
    /\ UNCHANGED <<armedMs, attVars>>

\* Line 149: a new blocker value without CMD_DISARM.
ArmedBlockerOther ==
    /\ pc = "armed"
    /\ ~ChangedReady(spdFresh)
    /\ ChangedReady(blkFresh)
    /\ ~contains(blk, CMD_DISARM)
    /\ blkFresh' = FALSE
    /\ out' = <<>>
    /\ timer' = TimeoutMs
    /\ running' = TRUE
    /\ UNCHANGED <<pc, i, blk, spd, spdFresh, motor_state, lastCmd, rampVars, quietMs>>
    /\ UNCHANGED <<armedMs, attVars>>

\* Variant of the timeout arm that does not command minimum throttle.
ArmedTimeout_NoThrottleCut ==
    /\ pc = "armed"
    /\ ~ChangedReady(spdFresh)
    /\ ~ChangedReady(blkFresh)
    /\ timer = 0
    /\ motor_state' = Timeout
    /\ out' = <<Snd(Timeout)>>
    /\ pc' = "wait_empty"
    /\ running' = TRUE
    /\ quietMs' = 0
    /\ armedMs' = 0
    /\ UNCHANGED <<timer, i, chanVars, lastCmd, rampVars>>
    /\ UNCHANGED attVars

\* Variant of the timeout arm without the break: the timer is restarted.
ArmedTimeout_NoBreak ==
    /\ pc = "armed"
    /\ ~ChangedReady(spdFresh)
    /\ ~ChangedReady(blkFresh)
    /\ timer = 0
    /\ lastCmd' = CmdThrottleMinimum
    /\ motor_state' = Timeout
    /\ out' = <<Drv(CmdThrottleMinimum), Snd(Timeout)>>
    /\ timer' = TimeoutMs
    /\ running' = TRUE
    /\ UNCHANGED <<pc, i, chanVars, rampVars, quietMs>>
    /\ UNCHANGED <<armedMs, attVars>>

\* Lines 142-147: neither channel changed before the timer expired.
ArmedTimeout ==
    /\ pc = "armed"
    /\ ~ChangedReady(spdFresh)
    /\ ~ChangedReady(blkFresh)
    /\ timer = 0
    /\ lastCmd' = CmdThrottleMinimum
    /\ motor_state' = Timeout
    /\ out' = <<Drv(CmdThrottleMinimum), Snd(Timeout)>>
    /\ pc' = "wait_empty"
    /\ running' = TRUE
    /\ quietMs' = 0
    /\ UNCHANGED <<timer, i, chanVars, rampVars>>
    /\ armedMs' = 0
    /\ UNCHANGED attVars

\* Lines 113-119 return Pending.
ArmedYield ==
    /\ pc = "armed"
    /\ running
    /\ ~ChangedReady(spdFresh)
    /\ ~ChangedReady(blkFresh)
    /\ timer > 0
    /\ running' = FALSE
    /\ out' = <<>>
    /\ UNCHANGED <<pc, timer, i, chanVars, motor_state, lastCmd, rampVars, quietMs>>
    /\ UNCHANGED <<armedMs, attVars>>

Governor ==
    \/ Start
    \/ WaitEmptyYield
    \/ SendArming
    \/ RampMinStep
    \/ RampDirStep
    \/ PostRampFault
    \/ PostRampPass
    \/ ArmedSpeedIdle
    \/ ArmedSpeedRunning
    \/ ArmedDisarm
    \/ ArmedBlockerOther
    \/ ArmedTimeout
    \/ ArmedYield

Publish ==
    \/ \E flag \in ArmBlocker : PublishBlocker(flag)
    \/ \E speeds \in SpeedVectors : PublishSpeed(speeds)

Next ==
    \/ Governor
    \/ Publish
    \/ Tick

Spec == Init /\ [][Next]_vars

\* Fairness the executor and the clock provide: a governor that can make
\* progress is polled, and time passes while it is blocked.
LiveSpec == Spec /\ WF_vars(Governor) /\ WF_vars(Tick)

\* ------------------------------------------------------------------------
\* Attitude controller (src/src/task_attitude_controller.rs)
\* ------------------------------------------------------------------------
\* The controller suspends at line 46 (first mode) and at line 70 (next
\* measurement); publishers act only while it is suspended.
AttSuspended == apc \in {"wait_mode", "wait_sense"}

PublishMode(m) ==
    /\ AttSuspended
    /\ modeChan' = Msg(m)
    /\ UNCHANGED <<apc, stabilization_mode, pid, resetChan, senseChan, actuate,
                   cycles, freshReset, updated, usedErr, pidOut,
                   lastKind>>
    /\ UNCHANGED govVars

PublishReset(b) ==
    /\ AttSuspended
    /\ resetChan' = Msg(b)
    /\ UNCHANGED <<apc, stabilization_mode, pid, modeChan, senseChan, actuate,
                   cycles, freshReset, updated, usedErr, pidOut,
                   lastKind>>
    /\ UNCHANGED govVars

PublishSense(m) ==
    /\ AttSuspended
    /\ cycles < MaxCycles
    /\ senseChan' = Msg(m)
    /\ UNCHANGED <<apc, stabilization_mode, pid, modeChan, resetChan, actuate,
                   cycles, freshReset, updated, usedErr, pidOut,
                   lastKind>>
    /\ UNCHANGED govVars

\* Lines 46-54: take the first mode, build the six controllers.
AcquireMode ==
    /\ apc = "wait_mode"
    /\ modeChan # NoMsg
    /\ stabilization_mode' = modeChan[1]
    /\ modeChan' = NoMsg
    /\ pid' = [n \in PidNames |-> PidFresh]
    /\ apc' = "poll_mode"
    /\ UNCHANGED <<resetChan, senseChan, actuate, cycles, freshReset, updated,
                   usedErr, pidOut,
                   lastKind>>
    /\ UNCHANGED govVars

\* Line 60: update_from_channel with a message waiting.
RefreshMode ==
    /\ apc = "poll_mode"
    /\ modeChan # NoMsg
    /\ stabilization_mode' = modeChan[1]
    /\ modeChan' = NoMsg
    /\ apc' = "poll_reset"
    /\ UNCHANGED <<pid, resetChan, senseChan, actuate, cycles, freshReset,
                   updated, usedErr, pidOut,
                   lastKind>>
    /\ UNCHANGED govVars

\* Line 60: update_from_channel with no message waiting.
KeepMode ==
    /\ apc = "poll_mode"
    /\ modeChan = NoMsg
    /\ apc' = "poll_reset"
    /\ UNCHANGED <<stabilization_mode, pid, modeChan, resetChan, senseChan,
                   actuate, cycles, freshReset, updated, usedErr, pidOut,
                   lastKind>>
    /\ UNCHANGED govVars

\* Variant of the reset that leaves out one controller.
ResetIntegrators_Partial ==
    /\ apc = "poll_reset"
    /\ resetChan = Msg(TRUE)
    /\ pid' = [n \in PidNames |->
                 IF n = "pid_yaw_inner" THEN pid[n] ELSE reset_integral(pid[n])]
    /\ freshReset' = TRUE
    /\ resetChan' = NoMsg
    /\ apc' = "wait_sense"
    /\ UNCHANGED <<stabilization_mode, modeChan, senseChan, actuate, cycles,
                   updated, usedErr, pidOut,
                   lastKind>>
    /\ UNCHANGED govVars

\* Lines 63-67: Some(true) is waiting; reset all six integrators.
ResetIntegrators ==
    /\ apc = "poll_reset"
    /\ resetChan = Msg(TRUE)
    /\ pid' = [n \in PidNames |-> reset_integral(pid[n])]
    /\ freshReset' = TRUE
    /\ resetChan' = NoMsg
    /\ apc' = "wait_sense"
    /\ UNCHANGED <<stabilization_mode, modeChan, senseChan, actuate, cycles,
                   updated, usedErr, pidOut,
                   lastKind>>
    /\ UNCHANGED govVars

\* Line 63: nothing, or Some(false), is waiting.
SkipReset ==
    /\ apc = "poll_reset"
    /\ resetChan # Msg(TRUE)
    /\ resetChan' = NoMsg
    /\ apc' = "wait_sense"
    /\ UNCHANGED <<stabilization_mode, pid, modeChan, senseChan, actuate,
                   cycles, freshReset, updated, usedErr, pidOut,
                   lastKind>>
    /\ UNCHANGED govVars

\* Components x, y, z of a vector belong to roll, pitch, yaw.
OuterOf == <<"pid_roll_outer", "pid_pitch_outer", "pid_yaw_outer">>
InnerOf == <<"pid_roll_inner", "pid_pitch_inner", "pid_yaw_inner">>

\* Lines 78-83: outputs of the outer controllers for a reference and angle.
InnerReference(reference, att_angle) ==
    LET outer_error == VSub(reference, att_angle)
    IN [k \in 1..3 |-> PidOutput(PidCfg(OuterOf[k]), pid[OuterOf[k]], outer_error[k])]

\* The state of the controllers after one pass with the given errors
\* (a function from the updated controllers to the error each is given).
Updated(errs) ==
    [n \in PidNames |->
        IF n \in DOMAIN errs THEN PidNext(PidCfg(n), pid[n], errs[n]) ELSE pid[n]]
Used(errs) ==
    [n \in PidNames |-> IF n \in DOMAIN errs THEN PidErr(PidCfg(n), errs[n]) ELSE 0]
Outputs(errs) ==
    [n \in PidNames |->
        IF n \in DOMAIN errs THEN PidOutput(PidCfg(n), pid[n], errs[n]) ELSE 0]

HorizonErrs(reference, att_angle, att_rate) ==
    LET outer_error == VSub(reference, att_angle)
        inner_error == VSub(InnerReference(reference, att_angle), att_rate)
    IN [n \in PidNames |->
          CASE n = OuterOf[1] -> outer_error[1]
            [] n = OuterOf[2] -> outer_error[2]
            [] n = OuterOf[3] -> outer_error[3]
            [] n = InnerOf[1] -> inner_error[1]
            [] n = InnerOf[2] -> inner_error[2]
            [] n = InnerOf[3] -> inner_error[3]]

\* Variant of the Acro pass that also runs the outer controllers.
AcroErrs_WithOuter(reference, att_rate) ==
    LET error == VSub(reference, att_rate)
    IN [n \in PidNames |->
          CASE n \in {InnerOf[1], OuterOf[1]} -> error[1]
            [] n \in {InnerOf[2], OuterOf[2]} -> error[2]
            [] n \in {InnerOf[3], OuterOf[3]} -> error[3]]

AcroErrs(reference, att_rate) ==
    LET error == VSub(reference, att_rate)
    IN [n \in InnerPids |->
          CASE n = InnerOf[1] -> error[1]
            [] n = InnerOf[2] -> error[2]
            [] n = InnerOf[3] -> error[3]]

\* Lines 70-103: a measurement arrived; compute and publish the actuation.
ControlCycle(errs) ==
    /\ pid' = Updated(errs)
    /\ updated' = DOMAIN errs
    /\ usedErr' = Used(errs)
    /\ pidOut' = Outputs(errs)
    /\ lastKind' = stabilization_mode[1]
    /\ actuate' = [k \in 1..3 |-> Outputs(errs)[InnerOf[k]]]
    /\ senseChan' = NoMsg
    /\ cycles' = cycles + 1
    /\ freshReset' = FALSE
    /\ apc' = "poll_mode"
    /\ UNCHANGED <<stabilization_mode, modeChan, resetChan>>
    /\ UNCHANGED govVars

CycleHorizon ==
    /\ apc = "wait_sense"
    /\ senseChan # NoMsg
    /\ stabilization_mode[1] = "Horizon"
    /\ ControlCycle(HorizonErrs(stabilization_mode[2], senseChan[1][1], senseChan[1][2]))

CycleAcro ==
    /\ apc = "wait_sense"
    /\ senseChan # NoMsg
    /\ stabilization_mode[1] = "Acro"
    /\ ControlCycle(AcroErrs(stabilization_mode[2], senseChan[1][2]))

AttitudeController ==
    \/ AcquireMode
    \/ RefreshMode
    \/ KeepMode
    \/ ResetIntegrators
    \/ SkipReset
    \/ CycleHorizon
    \/ CycleAcro

AttPublish ==
    \/ \E m \in Modes : PublishMode(m)
    \/ \E b \in BOOLEAN : PublishReset(b)
    \/ \E m \in SenseMsgs : PublishSense(m)

AttNext ==
    \/ AttitudeController
    \/ AttPublish

AttSpec == Init /\ [][AttNext]_vars

\* ------------------------------------------------------------------------
\* Properties
\* ------------------------------------------------------------------------
Range(seq) == {seq[k] : k \in 1..Len(seq)}
RampTotalMs == BootWaitMs + (ArmIters + DirIters) * StepMs
InRange(speeds) == \A k \in 1..4 : speeds[k] >= ThrottleMin /\ speeds[k] <= ThrottleMax
IsRunning(s) == Len(s) = 3 /\ s[1] = "Armed" /\ s[2] = "Running"

\* C1: the step that publishes Arming is taken only with an empty blocker
\* mask on the channel, which that step observes (and marks seen).
C1_ArmingOnlyOnEmptyMask ==
    [][(motor_state # Arming /\ motor_state' = Arming)
         => (is_empty(blk) /\ blk' = blk /\ blkFresh /\ ~blkFresh'
             /\ pc = "wait_empty")]_vars

C1_Witness ==
    /\ motor_state = Arming
    /\ pc = "ramp_boot"
    /\ timer = BootWaitMs
    /\ is_empty(blk)
    /\ lastCmd = CmdThrottleMinimum

\* C2: a non-empty mask read right after the ramp gives Disarmed(Fault) and
\* the outer wait; while Disarmed(Fault) is the published state the governor
\* is at the outer wait, and the next state published is Arming.
C2_PostRampFault ==
    [][/\ (RampDone /\ ~is_empty(blk) /\ Governor)
            => (motor_state' = Fault /\ pc' = "wait_empty"
                /\ out' = <<Snd(Fault)>> /\ lastCmd' = lastCmd)
       /\ (motor_state' = Fault) => (pc' = "wait_empty")
       /\ (motor_state = Fault) => (motor_state' \in {Fault, Arming})]_vars

C2_Witness ==
    /\ motor_state = Fault
    /\ pc = "wait_empty"
    /\ ~is_empty(blk)
    /\ nMin = ArmIters
    /\ nDir = DirIters

\* C3: with an unseen mask containing CMD_DISARM on the channel, a governor
\* in the armed loop does not suspend before it has published
\* Disarmed(Commanded): it consumes at most one pending speed vector first
\* and then the disarm, in the same poll, whatever other flags are set.
C3_DisarmWithinOnePoll ==
    [][(pc = "armed" /\ blkFresh /\ CMD_DISARM \in blk /\ Governor)
         => IF spdFresh
            THEN /\ pc' = "armed" /\ running' /\ ~spdFresh'
                 /\ blkFresh' /\ blk' = blk
            ELSE /\ motor_state' = Commanded /\ pc' = "wait_empty"
                 /\ running']_vars

C3_Witness ==
    /\ motor_state = Commanded
    /\ pc = "wait_empty"
    /\ Cardinality(blk) > 1
    /\ CMD_DISARM \in blk
    /\ ~blkFresh
    /\ spd # NoValue /\ ~spdFresh

\* C4: in the armed loop the quiet time (since the later of loop entry and
\* the last publish on either channel) never exceeds the timeout: when it
\* reaches the timeout the governor publishes Disarmed(Timeout) and leaves.
C4_TimeoutDisarms ==
    [][/\ (pc' = "armed") => (quietMs' <= TimeoutMs)
       /\ (pc' = "armed" /\ ~spdFresh' /\ ~blkFresh')
            => (timer' = TimeoutMs - quietMs')
       /\ (pc = "armed" /\ ~spdFresh /\ ~blkFresh /\ timer = 0 /\ Governor)
            => (motor_state' = Timeout /\ pc' = "wait_empty")]_vars

C4_Witness ==
    /\ motor_state = Timeout
    /\ pc = "wait_empty"
    /\ spd = ZeroSpeeds
    /\ ~spdFresh
    /\ lastCmd = CmdThrottleMinimum

\* C5: a consumed all-zero vector commands minimum throttle and publishes
\* Armed(Idle); any other consumed vector is passed to the clamped-throttle
\* command and published as Armed(Running(vector)); the loop is not left.
C5_SpeedArms ==
    [][(pc = "armed" /\ spdFresh /\ Governor)
         => /\ pc' = "armed"
            /\ ~spdFresh'
            /\ (spd = ZeroSpeeds)
                 => /\ out' = <<Drv(CmdThrottleMinimum), Snd(ArmedIdle)>>
                    /\ lastCmd' = CmdThrottleMinimum
                    /\ motor_state' = ArmedIdle
            /\ (spd # ZeroSpeeds)
                 => /\ out' = <<Drv(<<"throttle_clamp", ClampVec(spd)>>),
                                Snd(ArmedRunning(spd))>>
                    /\ lastCmd' = <<"throttle_clamp", ClampVec(spd)>>
                    /\ motor_state' = ArmedRunning(spd)]_vars

C5_Witness ==
    /\ pc = "armed"
    /\ motor_state = ArmedIdle
    /\ lastCmd = CmdThrottleMinimum
    /\ spd = ZeroSpeeds
    /\ ~spdFresh

\* C6 as stated: the vector carried by a published Armed(Running) has every
\* element within the throttle bounds.
C6_PublishedVectorClamped ==
    IsRunning(motor_state) => InRange(motor_state[3])

\* C6 amended: the published Armed(Running) carries the consumed vector
\* unchanged, the driver is commanded with that vector clamped, and the two
\* are equal exactly when every element is already within the bounds.
C6_PublishedVectorRaw ==
    [][(pc = "armed" /\ spdFresh /\ spd # ZeroSpeeds /\ Governor)
         => /\ motor_state' = ArmedRunning(spd)
            /\ lastCmd' = <<"throttle_clamp", ClampVec(spd)>>
            /\ InRange(lastCmd'[2])
            /\ (motor_state'[3] = lastCmd'[2]) <=> InRange(spd)]_vars

C6_Witness ==
    /\ IsRunning(motor_state)
    /\ \E k \in 1..4 : motor_state[3][k] > ThrottleMax
    /\ lastCmd = <<"throttle_clamp", ClampVec(motor_state[3])>>

\* C7: the ramp is the fixed sequence boot wait, ArmIters minimum-throttle
\* commands, DirIters direction-set commands, each command followed by a
\* StepMs wait; it is left only at its end, RampTotalMs after Arming, and
\* nothing is published during it.
C7_RampFixed ==
    [][/\ (pc' = "ramp_boot")
            => (nMin' = 0 /\ nDir' = 0 /\ rampMs' = BootWaitMs - timer')
       /\ (pc' = "ramp_min")
            => (nMin' \in 1..ArmIters /\ nDir' = 0
                /\ rampMs' = BootWaitMs + nMin' * StepMs - timer')
       /\ (pc' = "ramp_dir")
            => (nMin' = ArmIters /\ nDir' \in 1..DirIters
                /\ rampMs' = BootWaitMs + (ArmIters + nDir') * StepMs - timer')
       /\ (pc \in RampPcs /\ pc' \in RampPcs) => (motor_state' = Arming)
       /\ (pc \in RampPcs /\ pc' \notin RampPcs)
            => (nMin = ArmIters /\ nDir = DirIters /\ rampMs = RampTotalMs
                /\ timer = 0)]_vars

C7_Witness ==
    /\ pc = "ramp_dir"
    /\ nDir = DirIters
    /\ timer = 0
    /\ rampMs = RampTotalMs
    /\ blkFresh
    /\ CMD_DISARM \in blk
    /\ spdFresh

\* C8: the first state published is Disarmed(NotInitialized), by the first
\* step of the governor, before any driver command and before any channel
\* is consumed; it is not published again.
C8_InitialState ==
    [][/\ (motor_state = NoValue /\ motor_state' # NoValue)
            => (motor_state' = NotInitialized /\ pc = "start"
                /\ lastCmd' = CmdNone /\ out = <<>>
                /\ blkFresh' = blkFresh /\ spdFresh' = spdFresh)
       /\ (pc' = "start") => (motor_state' = NoValue /\ lastCmd' = CmdNone)
       /\ (Governor /\ pc # "start") => (Snd(NotInitialized) \notin Range(out'))
       /\ (motor_state # NotInitialized /\ motor_state # NoValue)
            => (motor_state' # NotInitialized)]_vars

C8_Witness ==
    /\ motor_state = NotInitialized
    /\ pc = "wait_empty"
    /\ lastCmd = CmdNone
    /\ blkFresh
    /\ spdFresh

\* C9: in the armed loop, consuming a blocker value without CMD_DISARM
\* publishes nothing, commands nothing and stays in the loop.
C9_OtherFlagsIgnored ==
    [][(pc = "armed" /\ ~spdFresh /\ blkFresh /\ ~(CMD_DISARM \in blk)
        /\ Governor)
         => /\ pc' = "armed"
            /\ out' = <<>>
            /\ motor_state' = motor_state
            /\ lastCmd' = lastCmd
            /\ ~blkFresh']_vars

C9_Witness ==
    /\ pc = "armed"
    /\ running
    /\ out = <<>>
    /\ ~blkFresh
    /\ blk # {}
    /\ ~(CMD_DISARM \in blk)

\* C10: the governor never ends: whenever a Disarmed state is published it
\* stands at the outer wait (or has not yet started), and from any Disarmed
\* state, an unseen empty mask that stays empty leads to Arming and then to
\* the armed loop.
C10_Recovers ==
    /\ [](pc \in PcValues)
    /\ [](IsDisarmed(motor_state) => pc = "wait_empty")
    /\ []((IsDisarmed(motor_state) /\ motor_state # NotInitialized
           /\ blkFresh /\ [](blk = {}))
            => <>(motor_state = Arming /\ <>(pc = "armed")))

\* Armed again after an earlier stay in the armed loop (a speed vector has
\* been consumed, and the published state is the Arming of a later ramp).
C10_Witness ==
    /\ pc = "armed"
    /\ motor_state = Arming
    /\ spd # NoValue
    /\ ~spdFresh
    /\ lastCmd = CmdReverse

\* ------------------------------------------------------------------------
\* Properties of the governor, continued
\* ------------------------------------------------------------------------
DriverCmds(effects) == {e[2] : e \in {x \in Range(effects) : x[1] = "driver"}}
SentStates(effects) == {e[2] : e \in {x \in Range(effects) : x[1] = "send"}}

\* C15: a disarm from the armed loop (commanded or timeout) commands minimum
\* throttle and then publishes the Disarmed state; no driver command follows
\* at the outer wait, so while Disarmed(Commanded) or Disarmed(Timeout) is
\* published the most recent driver command is minimum throttle.
C15_MinThrottleOnDisarm ==
    [][/\ (motor_state' \in {Commanded, Timeout})
            => (lastCmd' = CmdThrottleMinimum)
       /\ (motor_state' \in {Commanded, Timeout} /\ motor_state' # motor_state)
            => (pc = "armed" /\ pc' = "wait_empty"
                /\ out' = <<Drv(CmdThrottleMinimum), Snd(motor_state')>>)
       /\ (Governor /\ pc = "wait_empty") => (DriverCmds(out') = {})]_vars

C15_Witness ==
    /\ motor_state = Timeout
    /\ pc = "wait_empty"
    /\ spd # NoValue /\ spd # ZeroSpeeds
    /\ ~spdFresh
    /\ lastCmd = CmdThrottleMinimum

\* C16: every event consumed in the armed loop, a blocker value without
\* CMD_DISARM included, restarts the timeout; Disarmed(Timeout) is published
\* only a full TimeoutMs after the later of loop entry and the last event.
C16_TimeoutRestarts ==
    [][/\ (motor_state' = Timeout /\ motor_state # Timeout)
            => (quietMs = TimeoutMs /\ timer = 0 /\ ~spdFresh /\ ~blkFresh)
       /\ (pc = "armed" /\ Governor /\ (spdFresh \/ blkFresh) /\ pc' = "armed")
            => (timer' = TimeoutMs)]_vars

\* In the armed loop for longer than the timeout with no speed vector ever
\* published.
C16_Witness ==
    /\ pc = "armed"
    /\ armedMs > TimeoutMs
    /\ spd = NoValue
    /\ motor_state = Arming
    /\ ~(CMD_DISARM \in blk)

\* C17: the clamped-throttle command is issued only by a step inside the
\* armed loop, never while a Disarmed state is the published one; outside the
\* armed loop the most recent command is none, minimum throttle or
\* direction-set.
C17_ClampOnlyArmed ==
    [][/\ (Governor /\ \E c \in DriverCmds(out') : c[1] = "throttle_clamp")
            => (pc = "armed" /\ pc' = "armed" /\ motor_state[1] \in {"Arming", "Armed"})
       /\ (pc' # "armed")
            => (lastCmd' \in {CmdNone, CmdThrottleMinimum, CmdReverse})
       /\ (Governor /\ pc # "armed")
            => (DriverCmds(out') \subseteq {CmdThrottleMinimum, CmdReverse})]_vars

C17_Witness ==
    /\ pc = "armed"
    /\ lastCmd[1] = "throttle_clamp"
    /\ IsRunning(motor_state)

\* C18: a speed vector published before the armed loop is entered and not
\* yet seen is still pending at loop entry and is consumed by the first
\* iteration, in the same poll.
C18_StaleSpeedConsumed ==
    [][/\ (RampDone /\ is_empty(blk) /\ Governor /\ spdFresh)
            => (pc' = "armed" /\ running' /\ spdFresh' /\ spd' = spd)
       /\ (pc = "armed" /\ running /\ spdFresh /\ motor_state = Arming)
            => /\ ~spdFresh' /\ pc' = "armed"
               /\ (spd = ZeroSpeeds) => (motor_state' = ArmedIdle)
               /\ (spd # ZeroSpeeds)
                    => /\ motor_state' = ArmedRunning(spd)
                       /\ lastCmd' = <<"throttle_clamp", ClampVec(spd)>>]_vars

C18_Witness ==
    /\ pc = "armed"
    /\ running
    /\ spdFresh
    /\ spd # ZeroSpeeds
    /\ motor_state = Arming
    /\ armedMs = 0

\* C19: passing the post-ramp check publishes nothing; an Armed state is
\* published only by a step that consumes a speed vector; with no speed
\* vector the state published after Arming is Disarmed(Commanded) or
\* Disarmed(Timeout).
C19_NoPublishOnEntry ==
    [][/\ (RampDone /\ is_empty(blk) /\ Governor)
            => (out' = <<>> /\ motor_state = Arming /\ motor_state' = Arming)
       /\ (Governor /\ \E st \in SentStates(out') : IsArmed(st))
            => (pc = "armed" /\ spdFresh /\ ~spdFresh')
       /\ (pc = "armed" /\ motor_state = Arming /\ ~spdFresh)
            => (motor_state' \in {Arming, Commanded, Timeout})]_vars

C19_Witness ==
    /\ motor_state = Timeout
    /\ spd = NoValue
    /\ pc = "wait_empty"

\* C20: at the outer wait nothing happens until a blocker value the governor
\* has not seen is published: with the current value seen, even if empty,
\* the published state stays as it is.
C20_RearmNeedsNewValue ==
    [][(pc = "wait_empty" /\ ~blkFresh)
         => (pc' = "wait_empty" /\ motor_state' = motor_state)]_vars

C20_Witness ==
    /\ motor_state = Timeout
    /\ pc = "wait_empty"
    /\ ~running
    /\ is_empty(blk)
    /\ ~blkFresh

\* ------------------------------------------------------------------------
\* Attitude controller properties
\* ------------------------------------------------------------------------
\* The step that polls a pending reset of value true.
ResetPolled == apc = "poll_reset" /\ resetChan = Msg(TRUE)
\* The step of the controller that takes a measurement and computes an
\* actuation.
CycleStep == apc = "wait_sense" /\ apc' = "poll_mode"
\* The step that computes an actuation right after such a reset.
CycleAfterReset == CycleStep /\ freshReset
AllIntegralsZero(p) == \A n \in PidNames : p[n].integral = 0

\* The poll of a pending reset zeroes all six integrals in its one step and
\* leaves the rest of the controller state alone.
ResetIsWhole ==
    ResetPolled =>
        /\ AllIntegralsZero(pid')
        /\ \A n \in PidNames :
              /\ pid'[n].prev_error = pid[n].prev_error
              /\ pid'[n].dfilt = pid[n].dfilt
        /\ apc' = "wait_sense"

\* C11 as stated: the reset zeroes all six integrals in one step, and the
\* next output computed with zero error after the reset is zero.
C11_ZeroOutputAfterReset ==
    [][/\ ResetIsWhole
       /\ CycleAfterReset =>
            \A n \in updated' : usedErr'[n] = 0 => pidOut'[n] = 0]_vars

\* C11 amended: the reset zeroes all six integrals in one step, so every
\* actuation after a reset starts from six zero integrals; the next output
\* computed with zero error after the reset is the derivative term alone,
\* hence zero for a controller with zero derivative gain or zero derivative.
C11_ResetZeroesIntegrals ==
    [][/\ ResetIsWhole
       /\ CycleAfterReset =>
            /\ AllIntegralsZero(pid)
            /\ \A n \in updated' :
                  usedErr'[n] = 0 =>
                     /\ pid'[n].integral = 0
                     /\ pidOut'[n] = (PidCfg(n).kd * pid'[n].dfilt) \div GainScale
                     /\ (PidCfg(n).kd = 0 \/ pid'[n].dfilt = 0) => pidOut'[n] = 0]_vars

\* An actuation was computed right after a reset that cleared integrals
\* which had accumulated, one controller saw zero error and output zero.
C11_Witness ==
    /\ apc = "poll_mode"
    /\ cycles = MaxCycles
    /\ \E n \in updated :
          /\ usedErr[n] = 0
          /\ pidOut[n] = 0
          /\ pid[n].integral = 0
          /\ pid[n].dfilt # 0
    /\ \E n \in updated : usedErr[n] # 0 /\ pid[n].integral = usedErr[n]

\* The step that computes an actuation in the given kind of mode.
CycleIn(kind) == CycleStep /\ stabilization_mode[1] = kind
Reference == stabilization_mode[2]
AttAngle == senseChan[1][1]
AttRate == senseChan[1][2]

\* C12: a Horizon cycle updates all six controllers, the outer ones with
\* setpoint angle minus measured angle and the inner ones with the outer
\* output minus measured rate; an Acro cycle updates only the three inner
\* ones with setpoint rate minus measured rate and leaves the state of the
\* three outer ones unchanged.
C12_ActivePathOnly ==
    [][/\ CycleIn("Horizon") =>
            /\ updated' = PidNames
            /\ \A k \in 1..3 :
                  LET o == OuterOf[k]
                      n == InnerOf[k]
                  IN /\ usedErr'[o] = PidErr(PidCfg(o), Reference[k] - AttAngle[k])
                     /\ usedErr'[n] = PidErr(PidCfg(n), pidOut'[o] - AttRate[k])
                     /\ pid'[o].integral = pid[o].integral + usedErr'[o]
                     /\ pid'[n].integral = pid[n].integral + usedErr'[n]
                     /\ pid'[o].prev_error = usedErr'[o]
                     /\ pid'[n].prev_error = usedErr'[n]
                     /\ actuate'[k] = pidOut'[n]
       /\ CycleIn("Acro") =>
            /\ updated' = InnerPids
            /\ \A k \in 1..3 :
                  LET o == OuterOf[k]
                      n == InnerOf[k]
                  IN /\ usedErr'[n] = PidErr(PidCfg(n), Reference[k] - AttRate[k])
                     /\ pid'[n].integral = pid[n].integral + usedErr'[n]
                     /\ pid'[n].prev_error = usedErr'[n]
                     /\ pid'[o] = pid[o]
                     /\ actuate'[k] = pidOut'[n]]_vars

\* An Acro cycle ran after a Horizon cycle had left an integral in an outer
\* controller, and that integral is still there.
C12_Witness ==
    /\ apc = "poll_mode"
    /\ lastKind = "Acro"
    /\ updated = InnerPids
    /\ \E o \in OuterPids : pid[o].integral # 0 /\ pid[o].prev_error # 0
    /\ \E n \in InnerPids : usedErr[n] # 0

YawPids == {"pid_yaw_outer", "pid_yaw_inner"}
\* The difference a yaw controller is given in the coming cycle.
YawNaive(n) ==
    IF n = "pid_yaw_outer" THEN Reference[3] - AttAngle[3]
    ELSE IF stabilization_mode[1] = "Horizon"
         THEN InnerReference(Reference, AttAngle)[3] - AttRate[3]
         ELSE Reference[3] - AttRate[3]
Abs(x) == IF x < 0 THEN -x ELSE x

\* C13: the error a yaw controller uses lies in [-Pi, Pi], differs from the
\* naive difference by whole turns only (so it is the naive difference
\* whenever that lies inside the ring) and is never longer than it.
C13_CircularError ==
    [][CycleStep =>
          \A n \in YawPids \cap updated' :
             /\ usedErr'[n] \in (-Pi)..Pi
             /\ (usedErr'[n] - YawNaive(n)) % (2 * Pi) = 0
             /\ Abs(usedErr'[n]) <= Abs(YawNaive(n))
             /\ YawNaive(n) \in (-Pi)..(Pi - 1) => usedErr'[n] = YawNaive(n)]_vars

\* Setpoint yaw just below +Pi, measured yaw just above -Pi: the outer yaw
\* controller used the short way round.
C13_Witness ==
    /\ apc = "poll_mode"
    /\ lastKind = "Horizon"
    /\ "pid_yaw_outer" \in updated
    /\ stabilization_mode[2][3] = Pi - 100
    /\ usedErr["pid_yaw_outer"] = -200

\* C14 as stated: the first actuation computed under a new kind of mode
\* starts from fresh controller state, so each controller it updates holds
\* exactly the error of that cycle as its integral; a refresh of the mode
\* within the same kind changes no controller state.
C14_KindChangeStartsFresh ==
    [][/\ (CycleStep /\ lastKind # "None"
           /\ lastKind # stabilization_mode[1]) =>
              \A n \in updated' : pid'[n].integral = usedErr'[n]
       /\ (apc = "poll_mode" /\ modeChan # NoMsg
           /\ same_variant_as(modeChan[1], stabilization_mode)) =>
              pid' = pid]_vars

TypeOK ==
    /\ pc \in PcValues
    /\ running \in BOOLEAN
    /\ timer \in 0..TimeoutMs
    /\ i \in 0..ArmIters
    /\ blk \in ArmBlocker \cup {NoBlocker}
    /\ spd \in SpeedVectors \cup {NoValue}
    /\ blkFresh \in BOOLEAN
    /\ spdFresh \in BOOLEAN
====
